---- MODULE Spec2Model ----
(***************************************************************************)
(* Accident-SeverityClassification: the image ingestion pipeline of        *)
(* src/utils.py (validate_image, preprocess_image, get_image_metadata) and *)
(* the upload handler of src/model.py that sequences them.                 *)
(*                                                                         *)
(* Text is modelled as a sequence of one-character strings, so that        *)
(* "message contains X" is a substring search the model can fail.  The two *)
(* emoji that open the validator's messages are single elements.           *)
(* Real numbers are exact rationals <<numerator, denominator>>; a number   *)
(* rounded to 2 decimals is the integer count of hundredths.               *)
(***************************************************************************)
EXTENDS Integers, Sequences, FiniteSets, TLC

VARIABLES
    pc,             \* position of the script of src/model.py in its current run
    uploaded_file,  \* the file uploader's value: an image file or NoFile
    image,          \* the decoded image the run works on
    is_valid,       \* first component of validate_image's result
    message,        \* second component of validate_image's result
    metadata,       \* result of get_image_metadata in the handler
    processed_img,  \* result of preprocess_image in the handler
    severity_class, \* label returned by predict_severity
    shown,          \* what the run displayed for the upload, in order
    calls,          \* calls the handler made so far, over all runs, in order
    ret             \* the last direct call of a utility function, with its result

vars == <<pc, uploaded_file, image, is_valid, message, metadata,
          processed_img, severity_class, shown, calls, ret>>

----------------------------------------------------------------------------
(* Bounds of the model                                                     *)

\* number of files uploaded, one after the other, in one session
MaxUploads == 3

\* largest amount by which the resampling filter over/undershoots a channel
Ringing == 60

----------------------------------------------------------------------------
(* Program constants                                                       *)

MinDim == 100
MaxSizeMB == 10
BytesPerMB == 1024 * 1024
ChannelMax == 255
DefaultTarget == <<224, 224>>
Channels == 3
MegaPixel == 1000000

SupportedModes == {"RGB", "RGBA", "L"}

----------------------------------------------------------------------------
(* Text                                                                    *)

CrossMark == <<"[cross mark]">>
CheckMark == <<"[check mark]">>

TooSmallText ==
    <<" ","I","m","a","g","e"," ","t","o","o"," ","s","m","a","l","l","."," ",
      "M","i","n","i","m","u","m"," ","s","i","z","e",":"," ",
      "1","0","0","x","1","0","0"," ","p","i","x","e","l","s">>
UnsupportedText ==
    <<" ","U","n","s","u","p","p","o","r","t","e","d"," ","c","o","l","o","r",
      " ","m","o","d","e",":"," ">>
TooLargeText ==
    <<" ","F","i","l","e"," ","t","o","o"," ","l","a","r","g","e",":"," ">>
MaxText ==
    <<"M","B"," ","(","m","a","x",":"," ","1","0","M","B",")">>
ValidatedText ==
    <<" ","I","m","a","g","e"," ","v","a","l","i","d","a","t","e","d"," ",
      "s","u","c","c","e","s","s","f","u","l","l","y">>
PreprocessingFailedText ==
    <<"I","m","a","g","e"," ","p","r","e","p","r","o","c","e","s","s","i","n","g",
      " ","f","a","i","l","e","d",":"," ">>

\* messages of the errors the imaging library raises; they are inputs here
TruncatedText ==
    <<"i","m","a","g","e"," ","f","i","l","e"," ","i","s"," ",
      "t","r","u","n","c","a","t","e","d">>
BrokenText ==
    <<"b","r","o","k","e","n"," ","P","N","G"," ","f","i","l","e">>
BadSizeText ==
    <<"h","e","i","g","h","t"," ","a","n","d"," ","w","i","d","t","h"," ",
      "m","u","s","t"," ","b","e"," ",">"," ","0">>
EmptyBoxText ==
    <<"b","o","x"," ","c","a","n","'","t"," ","b","e"," ","e","m","p","t","y">>
DivZeroText ==
    <<"d","i","v","i","s","i","o","n"," ","b","y"," ","z","e","r","o">>

\* str(image.mode)
ModeText(m) ==
    CASE m = "L"    -> <<"L">>
      [] m = "RGB"  -> <<"R","G","B">>
      [] m = "RGBA" -> <<"R","G","B","A">>
      [] m = "CMYK" -> <<"C","M","Y","K">>
      [] m = "P"    -> <<"P">>
      [] m = "1"    -> <<"1">>

DigitText(d) ==
    CASE d = 0 -> "0" [] d = 1 -> "1" [] d = 2 -> "2" [] d = 3 -> "3"
      [] d = 4 -> "4" [] d = 5 -> "5" [] d = 6 -> "6" [] d = 7 -> "7"
      [] d = 8 -> "8" [] d = 9 -> "9"

RECURSIVE IntText(_)
\* str(n) of a natural number
IntText(n) ==
    IF n < 10 THEN <<DigitText(n)>>
    ELSE Append(IntText(n \div 10), DigitText(n % 10))

\* a \div b rounded to the nearest integer, ties to the even one
RoundHalfEven(a, b) ==
    LET q == a \div b
        r == a % b
    IN  IF 2 * r < b THEN q
        ELSE IF 2 * r > b THEN q + 1
        ELSE IF q % 2 = 0 THEN q ELSE q + 1

\* f"{x:.2f}" of the non-negative rational x = <<numerator, denominator>>
Format2f(x) ==
    LET h == RoundHalfEven(100 * x[1], x[2])
    IN  IntText(h \div 100) \o <<".">>
            \o <<DigitText((h % 100) \div 10), DigitText(h % 10)>>

\* Python's  needle in haystack  on text
Contains(haystack, needle) ==
    \E i \in 0..(Len(haystack) - Len(needle)) :
        \A k \in 1..Len(needle) : haystack[i + k] = needle[k]

StartsWith(text, prefix) ==
    /\ Len(prefix) <= Len(text)
    /\ \A k \in 1..Len(prefix) : text[k] = prefix[k]

----------------------------------------------------------------------------
(* Images                                                                  *)
(* A PIL image is its size, its mode, its format tag and what its pixel    *)
(* buffer yields when it is read: the bytes a PNG encoding of it takes,    *)
(* the least and greatest channel value, or an error (defect).             *)

NoFormat == "None"

MakeImages(widths, heights, modes, formats, pngs, defects, levels) ==
    { [width |-> w, height |-> h, mode |-> m, format |-> f,
       png |-> n, defect |-> d, lo |-> l[1], hi |-> l[2]] :
        w \in widths, h \in heights, m \in modes, f \in formats,
        n \in pngs, d \in defects, l \in levels }

Defects == {"none", "truncated", "broken"}

\* sizes around the 10 MB ceiling; 10616832 = 10.125 MB is a rounding tie
PngSizes == {300, MaxSizeMB * BytesPerMB, MaxSizeMB * BytesPerMB + 1, 10616832}

\* images handed to the utility functions directly
Images ==
    MakeImages({60, 100, 400}, {0, 99, 100, 200},
               {"L", "RGB", "RGBA", "CMYK", "P", "1"}, {NoFormat, "PNG"},
               PngSizes, Defects, {<<0, 255>>, <<17, 200>>})

\* images the uploader's JPEG/PNG decoder (Image.open) hands to the script
UploadImages ==
    MakeImages({60, 100}, {100}, {"RGB", "CMYK"}, {"PNG"},
               {300, MaxSizeMB * BytesPerMB + 1}, {"none", "truncated"},
               {<<0, 255>>})

TargetSizes == {DefaultTarget, <<100, 200>>, <<200, 100>>, <<0, 224>>}

\* the error a read of the pixel buffer raises
LoadError(im) ==
    IF im.defect = "truncated"
    THEN [type |-> "OSError", msg |-> TruncatedText]
    ELSE [type |-> "SyntaxError", msg |-> BrokenText]

----------------------------------------------------------------------------
(* validate_image                                                          *)

\* image.save(img_byte_arr, format='PNG'); len(img_byte_arr.getvalue())
SavePng(im) ==
    IF im.defect = "none"
    THEN [raised |-> FALSE, nbytes |-> im.png]
    ELSE [raised |-> TRUE, error |-> LoadError(im)]

\* mutant: "and" written for "or"
TooSmallBoth(im) == im.width < MinDim /\ im.height < MinDim

\* width < 100 or height < 100
TooSmall(im) == im.width < MinDim \/ im.height < MinDim

\* image.mode not in ['RGB', 'RGBA', 'L']
UnsupportedMode(im) == im.mode \notin SupportedModes

\* mutant: ">=" written for ">"
TooLargeInclusive(size_mb) == size_mb[1] >= MaxSizeMB * size_mb[2]

\* size_mb > 10, size_mb the exact quotient <<bytes, 1024 * 1024>>
TooLarge(size_mb) == size_mb[1] > MaxSizeMB * size_mb[2]

RejectTooSmall(im) ==
    [ok |-> FALSE, msg |-> CrossMark \o TooSmallText,
     reached |-> <<"dimensions">>]

\* mutant: the message does not interpolate image.mode
RejectModeUnnamed(im) ==
    [ok |-> FALSE, msg |-> CrossMark \o UnsupportedText,
     reached |-> <<"dimensions", "mode">>]

RejectMode(im) ==
    [ok |-> FALSE, msg |-> CrossMark \o UnsupportedText \o ModeText(im.mode),
     reached |-> <<"dimensions", "mode">>]

Accept ==
    [ok |-> TRUE, msg |-> CheckMark \o ValidatedText,
     reached |-> <<"dimensions", "mode", "size">>]

\* mutant: the except clause reports the failure as a rejection
SizeCheckStrict(im) ==
    LET saved   == SavePng(im)
        size_mb == <<saved.nbytes, BytesPerMB>>
    IN  IF saved.raised
        THEN [ok |-> FALSE, msg |-> CrossMark \o saved.error.msg,
              reached |-> <<"dimensions", "mode", "size">>]
        ELSE IF TooLarge(size_mb)
        THEN [ok |-> FALSE,
              msg |-> CrossMark \o TooLargeText \o Format2f(size_mb) \o MaxText,
              reached |-> <<"dimensions", "mode", "size">>]
        ELSE Accept

\* the try block and the statement after it: a raise inside the block is
\* swallowed by the bare except and the function falls through to acceptance
SizeCheck(im) ==
    LET saved   == SavePng(im)
        size_mb == <<saved.nbytes, BytesPerMB>>
    IN  IF saved.raised THEN Accept
        ELSE IF TooLarge(size_mb)
        THEN [ok |-> FALSE,
              msg |-> CrossMark \o TooLargeText \o Format2f(size_mb) \o MaxText,
              reached |-> <<"dimensions", "mode", "size">>]
        ELSE Accept

\* the result pair (ok, msg), and the checks the call went through (reached)
validate_image(im) ==
    IF TooSmall(im) THEN RejectTooSmall(im)
    ELSE IF UnsupportedMode(im) THEN RejectMode(im)
    ELSE SizeCheck(im)

----------------------------------------------------------------------------
(* preprocess_image                                                        *)

Clip8(v) == IF v < 0 THEN 0 ELSE IF v > ChannelMax THEN ChannelMax ELSE v

Returned(v) == [raised |-> FALSE, value |-> v]
Raised(t, m) == [raised |-> TRUE, error |-> [type |-> t, msg |-> m]]

\* what the resampling filter does to the channel values: nothing, or an
\* overshoot at an edge; "refuse" is the library refusing an empty bitmap
Resamplers == {"exact", "ring", "refuse"}

\* image.convert('RGB'): reads the pixel buffer; 8-bit channels come out
ConvertRGB(im) ==
    IF im.defect # "none"
    THEN [raised |-> TRUE, error |-> LoadError(im)]
    ELSE Returned([im EXCEPT !.mode = "RGB",
                             !.lo = Clip8(im.lo), !.hi = Clip8(im.hi)])

\* image.resize(size, Image.Resampling.LANCZOS): PIL reads size as
\* (width, height).  The filter's ringing is clipped to the 8-bit range.
\* Resizing a bitmap without pixels is not fixed by the repository: the
\* library may refuse it or fill the result with any 8-bit values.
Resize(im, size, r) ==
    IF im.defect # "none" THEN [raised |-> TRUE, error |-> LoadError(im)]
    ELSE IF size[1] < 1 \/ size[2] < 1 THEN Raised("ValueError", BadSizeText)
    ELSE IF im.width = 0 \/ im.height = 0
    THEN IF r = "refuse" THEN Raised("ValueError", EmptyBoxText)
         ELSE Returned([im EXCEPT !.width = size[1], !.height = size[2],
                                  !.lo = 0, !.hi = ChannelMax])
    ELSE LET d == IF r = "ring" THEN Ringing ELSE 0
         IN  Returned([im EXCEPT !.width = size[1], !.height = size[2],
                                 !.lo = Clip8(im.lo - d),
                                 !.hi = Clip8(im.hi + d)])

\* np.array(image, dtype=np.float32): shape (height, width, 3) of an RGB image
ToArray(im) ==
    [shape |-> <<im.height, im.width, Channels>>,
     lo |-> <<im.lo, 1>>, hi |-> <<im.hi, 1>>]

\* mutant: the division is left out
ScaleMissing(a) == a

\* img_array / 255.0
Scale(a) ==
    [a EXCEPT !.lo = <<a.lo[1], a.lo[2] * ChannelMax>>,
              !.hi = <<a.hi[1], a.hi[2] * ChannelMax>>]

\* np.expand_dims(img_array, axis=0)
ExpandDims(a) == [a EXCEPT !.shape = <<1>> \o a.shape]

\* mutant: the handler lets the original exception through
ReraiseRaw(e) == [raised |-> TRUE, error |-> e]

\* except Exception as e: raise ValueError(f"Image preprocessing failed: {str(e)}")
Reraise(e) == Raised("ValueError", PreprocessingFailedText \o e.msg)

\* the body of the try block, r the resampler's behaviour on this call
PreprocessSteps(im, target_size, r) ==
    LET converted == IF im.mode # "RGB" THEN ConvertRGB(im) ELSE Returned(im)
    IN  IF converted.raised THEN converted
        ELSE LET resized == Resize(converted.value, target_size, r)
             IN  IF resized.raised THEN resized
                 ELSE Returned(ExpandDims(Scale(ToArray(resized.value))))

preprocess_image(im, target_size, r) ==
    LET body == PreprocessSteps(im, target_size, r)
    IN  IF body.raised THEN Reraise(body.error) ELSE body

----------------------------------------------------------------------------
(* get_image_metadata                                                      *)

\* round(a / b, 2) in hundredths, for a quotient that is not a rounding tie
\* (none of the sample sizes gives one); a zero divisor raises
Round2(a, b) == RoundHalfEven(100 * a, b)

get_image_metadata(im) ==
    IF im.height = 0 THEN Raised("ZeroDivisionError", DivZeroText)
    ELSE Returned([width |-> im.width, height |-> im.height,
                   format |-> IF im.format = NoFormat THEN "Unknown" ELSE im.format,
                   mode |-> im.mode,
                   aspect_ratio |-> Round2(im.width, im.height),
                   megapixels |-> Round2(im.width * im.height, MegaPixel)])

----------------------------------------------------------------------------
(* The upload handler of src/model.py.  The framework runs the script from *)
(* its first line on every interaction: a new file, a cleared uploader, a  *)
(* pressed button.  Names bound by a run do not outlive it.                *)

NoFile == [none |-> TRUE]
Nothing == [none |-> TRUE]

\* labels of the classifier collaborator
Labels == {"Minor Damage", "Moderate Damage", "Severe Crash"}

\* runs of the script that validated a file
Runs == Cardinality({i \in DOMAIN calls : calls[i].fn = "validate_image"})

Call(fn, im, ok) == [fn |-> fn, img |-> im, ok |-> ok]

FreshRun(file) ==
    /\ pc' = "start"
    /\ uploaded_file' = file
    /\ image' = Nothing
    /\ is_valid' = FALSE
    /\ message' = <<>>
    /\ metadata' = Nothing
    /\ processed_img' = Nothing
    /\ severity_class' = ""
    /\ shown' = <<>>
    /\ UNCHANGED <<calls, ret>>

\* the user chooses a file in the uploader: the script runs again
Upload ==
    /\ pc \in {"done", "crashed"}
    /\ Runs < MaxUploads
    /\ \E im \in UploadImages : FreshRun([image |-> im])

\* the user presses one of the buttons: the script runs again on the same file
Rerun ==
    /\ pc = "done"
    /\ uploaded_file # NoFile
    /\ Runs < MaxUploads
    /\ FreshRun(uploaded_file)

\* the user clears the uploader
Clear ==
    /\ pc \in {"done", "crashed"}
    /\ uploaded_file # NoFile
    /\ FreshRun(NoFile)

\* else branch of  if uploaded_file is not None
ShowInstructions ==
    /\ pc = "start"
    /\ uploaded_file = NoFile
    /\ shown' = Append(shown, [kind |-> "info", text |-> <<>>])
    /\ pc' = "done"
    /\ UNCHANGED <<uploaded_file, image, is_valid, message, metadata,
                   processed_img, severity_class, calls, ret>>

\* image = Image.open(uploaded_file)
OpenImage ==
    /\ pc = "start"
    /\ uploaded_file # NoFile
    /\ image' = uploaded_file.image
    /\ pc' = "validate"
    /\ UNCHANGED <<uploaded_file, is_valid, message, metadata, processed_img,
                   severity_class, shown, calls, ret>>

\* mutant: the result of the session's first validation is kept and reused
ValidateCached ==
    /\ pc = "validate"
    /\ LET result == IF calls = <<>> THEN validate_image(image)
                     ELSE [ok |-> calls[1].ok, msg |-> calls[1].msg]
       IN  /\ is_valid' = result.ok
           /\ message' = result.msg
           /\ calls' = Append(calls, [fn |-> "validate_image", img |-> image,
                                      ok |-> result.ok, msg |-> result.msg])
    /\ pc' = "branch"
    /\ UNCHANGED <<uploaded_file, image, metadata, processed_img,
                   severity_class, shown, ret>>

\* is_valid, message = validate_image(image)
Validate ==
    /\ pc = "validate"
    /\ LET result == validate_image(image)
       IN  /\ is_valid' = result.ok
           /\ message' = result.msg
           /\ calls' = Append(calls, [fn |-> "validate_image", img |-> image,
                                      ok |-> result.ok, msg |-> result.msg])
    /\ pc' = "branch"
    /\ UNCHANGED <<uploaded_file, image, metadata, processed_img,
                   severity_class, shown, ret>>

\* if not is_valid: st.error(message)
ShowError ==
    /\ pc = "branch"
    /\ ~is_valid
    /\ shown' = Append(shown, [kind |-> "error", text |-> message])
    /\ pc' = "done"
    /\ UNCHANGED <<uploaded_file, image, is_valid, message, metadata,
                   processed_img, severity_class, calls, ret>>

\* mutant: the else branch runs whatever validate_image returned
ShowDetailsUnguarded ==
    /\ pc = "branch"
    /\ LET m == get_image_metadata(image)
       IN  /\ calls' = Append(calls, Call("get_image_metadata", image, ~m.raised))
           /\ IF m.raised
              THEN /\ shown' = shown \o <<[kind |-> "image", text |-> <<>>],
                                          [kind |-> "exception", text |-> m.error.msg]>>
                   /\ pc' = "crashed"
                   /\ UNCHANGED metadata
              ELSE /\ shown' = shown \o <<[kind |-> "image", text |-> <<>>],
                                          [kind |-> "details", text |-> <<>>]>>
                   /\ metadata' = m.value
                   /\ pc' = "analyze"
    /\ UNCHANGED <<uploaded_file, image, is_valid, message, processed_img,
                   severity_class, ret>>

\* else: st.image(image); metadata = get_image_metadata(image)
ShowDetails ==
    /\ pc = "branch"
    /\ is_valid
    /\ LET m == get_image_metadata(image)
       IN  /\ calls' = Append(calls, Call("get_image_metadata", image, ~m.raised))
           /\ IF m.raised
              THEN /\ shown' = shown \o <<[kind |-> "image", text |-> <<>>],
                                          [kind |-> "exception", text |-> m.error.msg]>>
                   /\ pc' = "crashed"
                   /\ UNCHANGED metadata
              ELSE /\ shown' = shown \o <<[kind |-> "image", text |-> <<>>],
                                          [kind |-> "details", text |-> <<>>]>>
                   /\ metadata' = m.value
                   /\ pc' = "analyze"
    /\ UNCHANGED <<uploaded_file, image, is_valid, message, processed_img,
                   severity_class, ret>>

\* processed_img = preprocess_image(image); an exception ends the run
Preprocess ==
    /\ pc = "analyze"
    /\ \E r \in Resamplers :
         LET p == preprocess_image(image, DefaultTarget, r)
         IN  /\ calls' = Append(calls, Call("preprocess_image", image, ~p.raised))
             /\ IF p.raised
                THEN /\ shown' = Append(shown, [kind |-> "exception",
                                                text |-> p.error.msg])
                     /\ pc' = "crashed"
                     /\ UNCHANGED processed_img
                ELSE /\ processed_img' = p.value
                     /\ pc' = "predict"
                     /\ UNCHANGED shown
    /\ UNCHANGED <<uploaded_file, image, is_valid, message, metadata,
                   severity_class, ret>>

\* severity_class, confidence = predict_severity(processed_img)
predict_severity(tensor) == Labels

Predict ==
    /\ pc = "predict"
    /\ severity_class' \in predict_severity(processed_img)
    /\ calls' = Append(calls, Call("predict_severity", image, TRUE))
    /\ pc' = "results"
    /\ UNCHANGED <<uploaded_file, image, is_valid, message, metadata,
                   processed_img, shown, ret>>

\* the severity, the metrics and the recommendations are displayed
ShowResults ==
    /\ pc = "results"
    /\ shown' = Append(shown, [kind |-> "severity", text |-> <<>>])
    /\ pc' = "done"
    /\ UNCHANGED <<uploaded_file, image, is_valid, message, metadata,
                   processed_img, severity_class, calls, ret>>

Init ==
    /\ pc = "start"
    /\ uploaded_file = NoFile
    /\ image = Nothing
    /\ is_valid = FALSE
    /\ message = <<>>
    /\ metadata = Nothing
    /\ processed_img = Nothing
    /\ severity_class = ""
    /\ shown = <<>>
    /\ calls = <<>>
    /\ ret = [fn |-> "none"]

Next ==
    \/ Upload
    \/ Rerun
    \/ Clear
    \/ ShowInstructions
    \/ OpenImage
    \/ Validate
    \/ ShowError
    \/ ShowDetails
    \/ Preprocess
    \/ Predict
    \/ ShowResults

Spec == Init /\ [][Next]_vars

----------------------------------------------------------------------------
(* The utility functions of src/utils.py called directly, on any image.    *)

InitLib ==
    /\ pc = "library"
    /\ uploaded_file = NoFile
    /\ image \in Images
    /\ is_valid = FALSE
    /\ message = <<>>
    /\ metadata = Nothing
    /\ processed_img = Nothing
    /\ severity_class = ""
    /\ shown = <<>>
    /\ calls = <<>>
    /\ ret = [fn |-> "none"]

LibUnchanged ==
    UNCHANGED <<pc, uploaded_file, image, is_valid, message, metadata,
                processed_img, severity_class, shown, calls>>

CallValidate ==
    /\ ret' = [fn |-> "validate_image", out |-> validate_image(image)]
    /\ LibUnchanged

CallPreprocess ==
    /\ \E target_size \in TargetSizes, r \in Resamplers :
         ret' = [fn |-> "preprocess_image", target_size |-> target_size,
                 resampler |-> r,
                 out |-> preprocess_image(image, target_size, r)]
    /\ LibUnchanged

CallMetadata ==
    /\ ret' = [fn |-> "get_image_metadata", out |-> get_image_metadata(image)]
    /\ LibUnchanged

NextLib ==
    \/ CallValidate
    \/ CallPreprocess
    \/ CallMetadata

SpecLib == InitLib /\ [][NextLib]_vars

----------------------------------------------------------------------------
(* Properties of the request flow (Spec)                                   *)

ValidateCalls == {i \in DOMAIN calls : calls[i].fn = "validate_image"}

\* the run in progress has a file and is past its validate_image call
Validated ==
    \/ pc \in {"branch", "analyze", "predict", "results"}
    \/ pc \in {"done", "crashed"} /\ uploaded_file # NoFile

\* C1: preprocess_image and predict_severity are called only on an image whose
\* most recent validate_image call, made on that same image, accepted it; a
\* run whose validate_image call rejected the upload calls nothing after it
\* and displays the rejection message and nothing else.
C1_PreprocessOnlyAfterAcceptance ==
    /\ \A i \in DOMAIN calls :
         calls[i].fn \in {"preprocess_image", "predict_severity"} =>
           \E j \in ValidateCalls :
             /\ j < i
             /\ \A k \in ValidateCalls : k < i => k <= j
             /\ calls[j].img = calls[i].img
             /\ calls[j].ok
    /\ Validated /\ ~is_valid =>
         /\ calls[Len(calls)].fn = "validate_image"
         /\ calls[Len(calls)].img = image
         /\ pc \in {"branch", "done"}
         /\ pc = "done" => shown = <<[kind |-> "error", text |-> message]>>

\* a session where one upload was preprocessed and a later one was rejected
C1_Witness ==
    /\ pc = "done"
    /\ uploaded_file # NoFile
    /\ ~is_valid
    /\ shown = <<[kind |-> "error", text |-> message]>>
    /\ \E i \in DOMAIN calls : calls[i].fn = "preprocess_image"

\* C10: every run with a file makes its own validate_image call on the image
\* it decoded and uses that call's result; the call leaves the image as it
\* was; its result is the one the image alone determines, so two calls on
\* equal images agree whatever was validated between them.
C10_ValidationStateless ==
    /\ \A i \in ValidateCalls :
         /\ calls[i].ok = validate_image(calls[i].img).ok
         /\ calls[i].msg = validate_image(calls[i].img).msg
    /\ \A i, j \in ValidateCalls :
         calls[i].img = calls[j].img =>
           calls[i].ok = calls[j].ok /\ calls[i].msg = calls[j].msg
    /\ Validated =>
         LET last == CHOOSE i \in ValidateCalls : \A k \in ValidateCalls : k <= i
         IN  /\ ValidateCalls # {}
             /\ calls[last].img = image
             /\ image = uploaded_file.image
             /\ is_valid = calls[last].ok
             /\ message = calls[last].msg

\* the same image validated before and after a different image, one of the
\* two accepted and the other rejected
C10_Witness ==
    \E i, j, k \in ValidateCalls :
        /\ i < j /\ j < k
        /\ calls[i].img = calls[k].img
        /\ calls[j].img # calls[i].img
        /\ calls[j].ok # calls[i].ok
        /\ calls[k].ok = calls[i].ok

----------------------------------------------------------------------------
(* Properties of the utility functions (SpecLib)                           *)

Validation == ret.fn = "validate_image"
Preprocessing == ret.fn = "preprocess_image"

\* C2: an image with width < 100 or height < 100 is rejected with a message
\* mentioning "100x100", whatever its mode and encoded size, and neither the
\* mode check nor the size check is reached.
C2_SmallImageRejected ==
    Validation /\ (image.width < 100 \/ image.height < 100) =>
        /\ ~ret.out.ok
        /\ Contains(ret.out.msg, <<"1","0","0","x","1","0","0">>)
        /\ ret.out.reached = <<"dimensions">>

\* a wide but low image of an unsupported mode whose encoding is over 10 MB
C2_Witness ==
    /\ Validation
    /\ image.width >= 100 /\ image.height = 99
    /\ image.mode = "CMYK"
    /\ image.defect = "none" /\ image.png > 10 * 1024 * 1024
    /\ ~ret.out.ok

\* C3 as stated: every image whose mode is outside {L, RGB, RGBA} is rejected
\* with a message that contains the mode name.
C3_AnyUnsupportedModeNamed ==
    Validation /\ image.mode \notin {"L", "RGB", "RGBA"} =>
        /\ ~ret.out.ok
        /\ Contains(ret.out.msg, ModeText(image.mode))

\* C3 amended: every image whose mode is outside {L, RGB, RGBA} is rejected;
\* when it is at least 100x100 the message contains the mode name, and when
\* it is smaller the message is the minimum-size one.
C3_UnsupportedModeRejected ==
    Validation /\ image.mode \notin {"L", "RGB", "RGBA"} =>
        /\ ~ret.out.ok
        /\ image.width >= 100 /\ image.height >= 100 =>
             Contains(ret.out.msg, ModeText(image.mode))
        /\ image.width < 100 \/ image.height < 100 =>
             Contains(ret.out.msg, <<"1","0","0","x","1","0","0">>)

C3_Witness ==
    /\ Validation
    /\ image.mode = "CMYK"
    /\ image.width >= 100 /\ image.height >= 100
    /\ ~ret.out.ok
    /\ Contains(ret.out.msg, <<"C","M","Y","K">>)

\* C4: when the PNG re-encode raises, an image that passes the resolution and
\* mode checks is accepted with the success message.
C4_EncodeFailureAccepted ==
    /\ Validation
    /\ image.width >= 100 /\ image.height >= 100
    /\ image.mode \in {"L", "RGB", "RGBA"}
    /\ SavePng(image).raised
    => /\ ret.out.ok
       /\ ret.out.msg = CheckMark \o ValidatedText

C4_Witness ==
    /\ Validation
    /\ image.defect = "truncated"
    /\ image.mode = "L"
    /\ image.width >= 100 /\ image.height >= 100
    /\ ret.out.ok

\* the size in MB to 2 decimals that is nearest to n bytes, followed by "MB"
SizeShown(msg, n) ==
    \E h \in 0..1100 :
        /\ h * 1024 * 1024 - 100 * n <= 512 * 1024
        /\ 100 * n - h * 1024 * 1024 <= 512 * 1024
        /\ Contains(msg, IntText(h \div 100) \o <<".">>
                         \o <<DigitText((h % 100) \div 10), DigitText(h % 10)>>
                         \o <<"M", "B">>)

\* C5: an image that passes the resolution and mode checks and encodes to n
\* bytes is rejected exactly when n > 10485760, and the rejection message
\* carries n in MB to 2 decimals.
C5_SizeCeiling ==
    /\ Validation
    /\ image.width >= 100 /\ image.height >= 100
    /\ image.mode \in {"L", "RGB", "RGBA"}
    /\ ~SavePng(image).raised
    => /\ ~ret.out.ok <=> image.png > 10485760
       /\ ~ret.out.ok => SizeShown(ret.out.msg, image.png)
       /\ image.png = 10485761 =>
            Contains(ret.out.msg, <<"1","0",".","0","0","M","B">>)

C5_Witness ==
    /\ Validation
    /\ image.width >= 100 /\ image.height >= 100
    /\ image.mode = "RGBA"
    /\ image.defect = "none"
    /\ image.png = 10485761
    /\ ~ret.out.ok

\* q, a rational, lies in [0, 1] and is a channel value 0..255 over 255
UnitChannel(q) == q[2] = 255 /\ 0 <= q[1] /\ q[1] <= q[2]

UnitTensor(t, height, width) ==
    /\ t.shape = <<1, height, width, 3>>
    /\ UnitChannel(t.lo) /\ UnitChannel(t.hi)

DefaultCall == Preprocessing /\ ret.target_size = <<224, 224>>

\* C6 as stated: preprocess_image with the default target size turns every
\* accepted image into a tensor of shape (1, 224, 224, 3) with elements in
\* [0, 1].
C6_AcceptedImageGivesTensor ==
    DefaultCall /\ validate_image(image).ok =>
        /\ ~ret.out.raised
        /\ UnitTensor(ret.out.value, 224, 224)

\* C6 amended: for an accepted image, preprocess_image with the default
\* target size returns a tensor of shape (1, 224, 224, 3) with elements in
\* [0, 1] when the pixel buffer can be read, and raises ValueError when it
\* cannot (validate_image accepted the image by skipping the size check).
C6_ReadableAcceptedImageGivesTensor ==
    DefaultCall /\ validate_image(image).ok =>
        /\ ret.out.raised <=> SavePng(image).raised
        /\ ~ret.out.raised => UnitTensor(ret.out.value, 224, 224)
        /\ ret.out.raised => ret.out.error.type = "ValueError"

\* a grayscale image whose resampling overshoots
C6_Witness ==
    /\ DefaultCall
    /\ validate_image(image).ok
    /\ image.mode = "L" /\ image.width = 400 /\ image.height = 200
    /\ ret.resampler = "ring"
    /\ ~ret.out.raised
    /\ ret.out.value.hi = <<255, 255>>

\* C7: the tensor's height axis is target_size[0] and its width axis is
\* target_size[1].
C7_TargetIsHeightWidth ==
    Preprocessing /\ ~ret.out.raised =>
        ret.out.value.shape = <<1, ret.target_size[1], ret.target_size[2], 3>>

\* C8: when a step of preprocess_image raises, the caller gets a ValueError
\* whose message is "Image preprocessing failed: " followed by the cause's
\* message, and no tensor; when no step raises, no error is raised.
C8_SingleFailureKind ==
    Preprocessing =>
        LET steps == PreprocessSteps(image, ret.target_size, ret.resampler)
        IN  /\ ret.out.raised <=> steps.raised
            /\ ret.out.raised =>
                 /\ ret.out.error.type = "ValueError"
                 /\ StartsWith(ret.out.error.msg,
                               <<"I","m","a","g","e"," ","p","r","e","p","r","o",
                                 "c","e","s","s","i","n","g"," ","f","a","i","l",
                                 "e","d",":"," ">>)
                 /\ Contains(ret.out.error.msg, steps.error.msg)
                 /\ Len(ret.out.error.msg) = 28 + Len(steps.error.msg)
                 /\ "value" \notin DOMAIN ret.out

\* the mode conversion of a truncated file raises OSError
C8_Witness ==
    /\ Preprocessing
    /\ image.defect = "truncated"
    /\ image.mode = "RGBA"
    /\ ret.out.raised
    /\ ret.out.error.type = "ValueError"

\* C9: get_image_metadata returns a record for every image.
C9_MetadataNeverFails ==
    ret.fn = "get_image_metadata" => ~ret.out.raised

====
